---- MODULE Spec2Model ----
(***************************************************************************)
(* Model of the human-in-the-loop proxy (src/HITLProxy.ts) and of the      *)
(* approval service it uses (HITLApprovalService, src/unnamed/part_000).   *)
(*                                                                         *)
(* JavaScript runs one handler at a time and yields only at an await, so   *)
(* every action below is the code between two awaits of one handler.  The  *)
(* identity provider, the downstream server and the human approver are the *)
(* environment: the approver decides a pending request once (approve or    *)
(* deny), the provider answers a poll from that decision, any request may  *)
(* get no response, and a downstream call returns a result, returns an     *)
(* error result, or throws.                                                *)
(*                                                                         *)
(* HITLProxy.create throws when MCPServerMap has no entry for the server   *)
(* name, before any handler can run, so callTool's "if (!config) return    *)
(* null" is never taken and config is always an entry of the map.  Time is *)
(* Date.now() in milliseconds, advancing in steps of Quantum while some    *)
(* request is being handled.                                               *)
(***************************************************************************)
EXTENDS Integers, Sequences, FiniteSets, TLC

\* ---------------------------------------------------------------- bounds
\* The clock advances MaxTicks times, each time by Quantum milliseconds.
MaxTicks == 6
Quantum  == 5000
\* The downstream server lists at most MaxList tools.
MaxList  == 3

\* The concurrent callers: two tools/call requests for ordinary tools and one
\* for check_task_status.
Invokers == {"i1", "i2"}
Checkers == {"c1"}

\* The tool names and arguments the callers send.
ToolNames == {"read_profile", "delete_user", "system_admin"}
ToolArgs  == [i1 |-> "u1", i2 |-> "u2"]

\* The values of Math.random().toString(36).substring(2, 6) the model draws.
Suffixes == {"k3f9", "x7q2"}

\* ---------------------------------------------------- program constants
pollTimeout    == 30000
pollInterval   == 4000
statusDeadline == 10000
statusInterval == 4000

\* MCPServerMap["okta-mcp-server"]
MCPServerMap ==
    [HighRiskTools |-> {"list_users", "delete_user", "create_user"},
     BlockedTools  |-> {"system_admin"}]

\* Other policies over the modelled tool names, among them those in which a
\* name is both blocked and high risk.
Policies ==
    [HighRiskTools : SUBSET ToolNames, BlockedTools : SUBSET ToolNames]

VARIABLES
    config,        \* MCPServerMap[downstreamServerName]
    now,           \* Date.now()
    pendingTasks,  \* the Map taskId -> {toolName, toolArgs, status, hitlOobCode}
    inv,           \* per tools/call request: the position and locals of callTool
    chk,           \* per check_task_status request: position and locals
    okta,          \* identity provider: per issued oob code, the approver's decision
    calls,         \* downstream: per oob code, the callTool requests received for its task
    callLog,       \* downstream: every callTool request received
    approvedSeen,  \* oob codes for which some checkForApproval returned "APPROVED"
    deniedSeen,    \* oob codes for which some checkForApproval threw the provider's denial
    auditLog,      \* the records logToolCall has written
    lister         \* the tools/list request: its position, the downstream's tools

vars == <<config, now, pendingTasks, inv, chk, okta, calls, callLog,
          approvedSeen, deniedSeen, auditLog, lister>>

NoCode == 0
NoTask == [t |-> -1, r |-> ""]
NoTime == -1

\* ---------------------------------------------------------------- results
\* What a handler hands back: kind "result" is a structured tool result, "null"
\* is the value null, "thrown" an exception leaving the handler, "none" nothing
\* yet.  text names the message template, status is structuredContent.status.
Result(isError, text, status) ==
    [kind |-> "result", isError |-> isError, text |-> text, status |-> status]

NoResult   == [kind |-> "none",   isError |-> FALSE, text |-> "", status |-> ""]
NullResult == [kind |-> "null",   isError |-> FALSE, text |-> "", status |-> ""]
Thrown     == [kind |-> "thrown", isError |-> FALSE, text |-> "", status |-> ""]

BlockedResult        == Result(TRUE, "access blocked", "")
SetupFailedResult    == Result(TRUE, "authorization setup failed", "")
DeniedOrFailedResult == Result(TRUE, "approval was denied or failed", "")
TimeoutResult        == Result(TRUE, "approval request timed out", "")

\* The downstream server's answers to callTool.
DownOutcomes == {"ok", "toolError", "throw"}
ToolResult(o) == Result(o = "toolError", o, "")

NoActiveTaskResult    == Result(FALSE, "no active task found", "")
StillPendingResult    == Result(FALSE, "still pending human approval", "PENDING")
CompletedResult(o)    == [ToolResult(o) EXCEPT !.status = "COMPLETED"]
CheckDeniedResult     == Result(TRUE, "approval failed or was denied", "")
InvalidTaskIdResult   == Result(FALSE, "check_task_status requires a valid taskId", "")
HighRiskListResult    == Result(FALSE, "high risk tools are", "")

\* ------------------------------------------------------- approval service
\* The provider's answers to POST /oob-authenticate.
OobAuthResponses == {"oob_code", "no_oob_code", "http_error", "no_response"}

\* sendApprovalRequest: the oob code, or an Error for everything else.
sendApprovalRequest(resp) == IF resp = "oob_code" THEN "RETURN" ELSE "THROW"

\* The provider's answers to POST /token.
TokenReplies == {"200", "authorization_pending", "access_denied", "no_response"}

\* The provider's answers to POST /token for oob code c: what the approver has
\* decided so far, or no response at all.
TokenResponses(c) ==
    {"no_response"} \cup
    CASE okta[c] = "pending"  -> {"authorization_pending"}
      [] okta[c] = "approved" -> {"200"}
      [] okta[c] = "denied"   -> {"access_denied"}

\* checkForApproval with every response but "pending" and "none" taken as success.
checkForApprovalDenialAsSuccess(resp) ==
    CASE resp = "authorization_pending" -> "PENDING"
      [] resp = "no_response"           -> "THROW_NETWORK"
      [] OTHER                          -> "APPROVED"

\* checkForApproval: "APPROVED" on success, "PENDING" on authorization_pending,
\* the provider's error data thrown for any other response, an Error thrown
\* when there was no response.
checkForApproval(resp) ==
    CASE resp = "200"                   -> "APPROVED"
      [] resp = "authorization_pending" -> "PENDING"
      [] resp = "no_response"           -> "THROW_NETWORK"
      [] OTHER                          -> "THROW_ERRORDATA"

\* ----------------------------------------------------------- the registry
NoEntry == [toolName |-> "", toolArgs |-> "", status |-> "", hitlOobCode |-> NoCode]

\* A task registered as approved already.
TaskEntryApproved(name, args, code) ==
    [toolName |-> name, toolArgs |-> args, status |-> "APPROVED", hitlOobCode |-> code]

\* The value callTool stores under the task id.
TaskEntry(name, args, code) ==
    [toolName |-> name, toolArgs |-> args, status |-> "PENDING", hitlOobCode |-> code]

\* Map.set
MapSet(m, id, e) == [k \in DOMAIN m \cup {id} |-> IF k = id THEN e ELSE m[k]]

\* Map.delete
MapDelete(m, id) == [k \in DOMAIN m \ {id} |-> m[k]]

\* Map.get, NoEntry for undefined
MapGet(m, id) == IF id \in DOMAIN m THEN m[id] ELSE NoEntry

\* `task-${Date.now()}-${Math.random().toString(36).substring(2, 6)}`
NewTaskId(r) == [t |-> now, r |-> r]

\* ------------------------------------------------------------ the policy
\* The policy with the high-risk check dropped.
ClassifyWithoutHighRisk(cfg, name) ==
    IF name \in cfg.BlockedTools THEN "BLOCKED" ELSE "ALLOWED"

\* The policy with the two checks in the other order.
ClassifyHighRiskFirst(cfg, name) ==
    IF name \in cfg.HighRiskTools THEN "HIGH_RISK"
    ELSE IF name \in cfg.BlockedTools THEN "BLOCKED"
    ELSE "ALLOWED"

\* The order of the two checks of callTool: blocked first, then high risk,
\* otherwise the call is forwarded.
Classify(cfg, name) ==
    IF name \in cfg.BlockedTools THEN "BLOCKED"
    ELSE IF name \in cfg.HighRiskTools THEN "HIGH_RISK"
    ELSE "ALLOWED"

\* ------------------------------------------------------------- the audit
\* logToolCall: one record per call.  No handler calls it.
logToolCall(log, name, args) ==
    Append(log, [server |-> "okta-mcp-server", tool |-> name, arguments |-> args])

\* ------------------------------------------------------------ tools/list
\* What downstreamClient.listTools() can hold: the tool names in their order.
RECURSIVE SeqsUpTo(_, _)
SeqsUpTo(S, n) ==
    IF n = 0 THEN {<<>>}
    ELSE LET shorter == SeqsUpTo(S, n - 1)
         IN shorter \cup {Append(q, x) : q \in shorter, x \in S}

DownListings == SeqsUpTo(ToolNames, MaxList)

\* The downstream server's answers to listTools.
ListReplies == {"tools", "throw"}

\* getTools: the downstream's tools, or [] when listTools throws.
getTools(reply, tools) == IF reply = "throw" THEN <<>> ELSE tools

\* A listing that leaves out the two tools of the proxy when the downstream
\* lists nothing.
ListToolsResultOnlyWithDownstream(downstreamTools) ==
    IF downstreamTools = <<>> THEN <<>>
    ELSE downstreamTools \o <<"check_task_status", "list_high_risk_tools">>

\* The tools the ListTools handler returns.
ListToolsResult(downstreamTools) ==
    downstreamTools \o <<"check_task_status", "list_high_risk_tools">>

ListerIdle(tools) == [pc |-> "idle", downTools |-> tools, reply |-> "", result |-> <<>>]

\* ------------------------------------------------------------------ Init
InvIdle ==
    [pc |-> "idle", toolName |-> "", toolArgs |-> "", progressToken |-> FALSE,
     cls |-> "", taskId |-> NoTask, oobCode |-> NoCode, startTime |-> NoTime,
     wake |-> NoTime, result |-> NoResult,
     \* history of this call
     initiated |-> FALSE, registered |-> FALSE, polled |-> FALSE, forwards |-> 0,
     lastPoll |-> "", downOutcome |-> "", removedStatus |-> ""]

\* A caller that sends nothing in this run.
InvOff == [InvIdle EXCEPT !.pc = "off"]

ChkIdle ==
    [pc |-> "idle", taskId |-> NoTask, startTime |-> NoTime, task |-> NoEntry,
     wake |-> NoTime, lastresult |-> NoResult, result |-> NoResult]

\* A handler returns r: its locals go out of scope.
Return(rec, r) ==
    [rec EXCEPT !.pc = "done", !.result = r, !.progressToken = FALSE,
                !.startTime = NoTime, !.wake = NoTime]

StatusReturn(rec, r) ==
    [ChkIdle EXCEPT !.pc = "done", !.taskId = rec.taskId, !.result = r]

Init ==
    /\ config = MCPServerMap
    /\ now = 0
    /\ pendingTasks = [id \in {} |-> NoEntry]
    /\ inv = [i \in Invokers |-> IF i = "i1" THEN InvIdle ELSE InvOff]
    /\ chk = [k \in Checkers |-> ChkIdle]
    /\ okta = <<>>
    /\ calls = <<>>
    /\ callLog = {}
    /\ approvedSeen = {}
    /\ deniedSeen = {}
    /\ auditLog = <<>>
    /\ lister = ListerIdle(<<"read_profile", "delete_user", "system_admin">>)

\* ------------------------------------------------------------ downstream
\* downstreamClient.callTool({name, arguments}) sent by handler `by` for the
\* task of oob code c (NoCode for a directly forwarded call).
DownstreamCall(name, args, c, by) ==
    /\ callLog' = callLog \cup {[name |-> name, args |-> args, code |-> c, by |-> by]}
    /\ calls' = IF c = NoCode THEN calls ELSE [calls EXCEPT ![c] = @ + 1]

\* ------------------------------------------------------- callTool (invoke)
\* A blocked tool that is logged as blocked and forwarded all the same.
CallToolBlockedButForwarded(i, n, a, tok) ==
    /\ inv[i].pc = "idle"
    /\ n \in config.BlockedTools
    /\ inv' = [inv EXCEPT ![i] = [@ EXCEPT !.pc = "forward", !.toolName = n,
                  !.toolArgs = a, !.cls = "BLOCKED", !.forwards = @ + 1]]
    /\ callLog' = callLog \cup {[name |-> n, args |-> a, code |-> NoCode, by |-> i]}
    /\ UNCHANGED <<lister, auditLog, config, now, pendingTasks, chk, okta, calls,
                   approvedSeen, deniedSeen>>

\* Blocked tool: an error result at once.
CallToolBlocked(i, n, a, tok) ==
    /\ inv[i].pc = "idle"
    /\ Classify(config, n) = "BLOCKED"
    /\ inv' = [inv EXCEPT ![i] = Return([@ EXCEPT !.toolName = n,
                  !.toolArgs = a, !.cls = "BLOCKED"], BlockedResult)]
    /\ UNCHANGED <<lister, auditLog, config, now, pendingTasks, chk, okta, calls, callLog,
                   approvedSeen, deniedSeen>>

\* High-risk tool: the task id is generated and sendApprovalRequest is awaited.
CallToolHighRisk(i, n, a, tok, r) ==
    /\ inv[i].pc = "idle"
    /\ Classify(config, n) = "HIGH_RISK"
    /\ inv' = [inv EXCEPT ![i] = [@ EXCEPT !.pc = "initiate", !.toolName = n,
                  !.toolArgs = a, !.progressToken = tok, !.cls = "HIGH_RISK",
                  !.taskId = NewTaskId(r), !.initiated = TRUE]]
    /\ UNCHANGED <<lister, auditLog, config, now, pendingTasks, chk, okta, calls, callLog,
                   approvedSeen, deniedSeen>>

\* Any other tool: the call is sent downstream and awaited.
CallToolAllowed(i, n, a, tok) ==
    /\ inv[i].pc = "idle"
    /\ Classify(config, n) = "ALLOWED"
    /\ inv' = [inv EXCEPT ![i] = [@ EXCEPT !.pc = "forward", !.toolName = n,
                  !.toolArgs = a, !.cls = "ALLOWED",
                  !.forwards = @ + 1]]
    /\ DownstreamCall(n, a, NoCode, i)
    /\ UNCHANGED <<lister, auditLog, config, now, pendingTasks, chk, okta, approvedSeen, deniedSeen>>

\* The forwarded call returns: its result is returned; a thrown error is
\* logged and null is returned.
ForwardResult(o) == IF o = "throw" THEN NullResult ELSE ToolResult(o)

ForwardReturn(i, o) ==
    /\ inv[i].pc = "forward"
    /\ inv' = [inv EXCEPT ![i] = Return([@ EXCEPT !.downOutcome = o],
                                           ForwardResult(o))]
    /\ UNCHANGED <<lister, auditLog, config, now, pendingTasks, chk, okta, calls, callLog,
                   approvedSeen, deniedSeen>>

\* A failed initiation that leaves a task without oob code in the registry.
InitiateFailsButRegisters(i, resp) ==
    /\ inv[i].pc = "initiate"
    /\ resp # "oob_code"
    /\ inv' = [inv EXCEPT ![i] = [@ EXCEPT !.pc = "done", !.result = SetupFailedResult,
                  !.progressToken = FALSE]]
    /\ pendingTasks' = [id \in DOMAIN pendingTasks \cup {inv[i].taskId} |->
                          IF id = inv[i].taskId
                          THEN [toolName |-> inv[i].toolName, toolArgs |-> inv[i].toolArgs,
                                status |-> "PENDING", hitlOobCode |-> NoCode]
                          ELSE pendingTasks[id]]
    /\ UNCHANGED <<lister, auditLog, config, now, chk, okta, calls, callLog, approvedSeen, deniedSeen>>

\* sendApprovalRequest throws: an error result, nothing registered.
InitiateFails(i, resp) ==
    /\ inv[i].pc = "initiate"
    /\ sendApprovalRequest(resp) = "THROW"
    /\ inv' = [inv EXCEPT ![i] = Return(@, SetupFailedResult)]
    /\ UNCHANGED <<lister, auditLog, config, now, pendingTasks, chk, okta, calls, callLog,
                   approvedSeen, deniedSeen>>

\* The head of the polling loop of callTool for the locals `rec`, with the
\* registry being `tasks`: poll again while the deadline has not passed,
\* otherwise delete the task and return the timeout result.
PollLoop(i, rec, tasks) ==
    IF now - rec.startTime < pollTimeout
    THEN /\ inv' = [inv EXCEPT ![i] = [rec EXCEPT !.pc = "poll", !.polled = TRUE,
                                                   !.wake = NoTime]]
         /\ pendingTasks' = tasks
    ELSE /\ inv' = [inv EXCEPT ![i] = Return(
                       [rec EXCEPT !.removedStatus = MapGet(tasks, rec.taskId).status],
                       TimeoutResult)]
         /\ pendingTasks' = MapDelete(tasks, rec.taskId)

\* sendApprovalRequest returns a new oob code: the task is registered, then
\* the progress notification is awaited (with a progress token) or the polling
\* loop starts.
InitiateSucceeds(i, resp) ==
    /\ inv[i].pc = "initiate"
    /\ sendApprovalRequest(resp) = "RETURN"
    /\ LET c     == Len(okta) + 1
           rec   == [inv[i] EXCEPT !.oobCode = c, !.registered = TRUE]
           tasks == MapSet(pendingTasks, rec.taskId,
                           TaskEntry(rec.toolName, rec.toolArgs, c))
       IN /\ okta' = Append(okta, "pending")
          /\ calls' = Append(calls, 0)
          /\ IF rec.progressToken
             THEN /\ inv' = [inv EXCEPT ![i] = [rec EXCEPT !.pc = "notify"]]
                  /\ pendingTasks' = tasks
             ELSE PollLoop(i, [rec EXCEPT !.startTime = now], tasks)
    /\ UNCHANGED <<lister, auditLog, config, now, chk, callLog, approvedSeen, deniedSeen>>

\* server.notification returns: the polling loop starts.
NotifyReturns(i) ==
    /\ inv[i].pc = "notify"
    /\ PollLoop(i, [inv[i] EXCEPT !.startTime = now, !.progressToken = FALSE],
                pendingTasks)
    /\ UNCHANGED <<lister, auditLog, config, now, chk, okta, calls, callLog, approvedSeen, deniedSeen>>

\* server.notification throws: nothing in callTool catches it.
NotifyThrows(i) ==
    /\ inv[i].pc = "notify"
    /\ inv' = [inv EXCEPT ![i] = [Return(@, Thrown) EXCEPT !.pc = "threw"]]
    /\ UNCHANGED <<lister, auditLog, config, now, pendingTasks, chk, okta, calls, callLog,
                   approvedSeen, deniedSeen>>

\* checkForApproval returns "APPROVED": the stored call is sent downstream.
PollApproved(i, resp) ==
    /\ inv[i].pc = "poll"
    /\ resp \in TokenResponses(inv[i].oobCode)
    /\ checkForApproval(resp) = "APPROVED"
    /\ inv' = [inv EXCEPT ![i] = [@ EXCEPT !.pc = "exec", !.lastPoll = "APPROVED"]]
    /\ approvedSeen' = approvedSeen \cup {inv[i].oobCode}
    /\ DownstreamCall(inv[i].toolName, inv[i].toolArgs, inv[i].oobCode, i)
    /\ UNCHANGED <<lister, auditLog, config, now, pendingTasks, chk, okta, deniedSeen>>

\* checkForApproval returns "PENDING": wait pollInterval.
PollPending(i, resp) ==
    /\ inv[i].pc = "poll"
    /\ resp \in TokenResponses(inv[i].oobCode)
    /\ checkForApproval(resp) = "PENDING"
    /\ inv' = [inv EXCEPT ![i] = [@ EXCEPT !.pc = "sleep", !.lastPoll = "PENDING",
                  !.wake = now + pollInterval]]
    /\ UNCHANGED <<lister, auditLog, config, now, pendingTasks, chk, okta, calls, callLog,
                   approvedSeen, deniedSeen>>

\* checkForApproval throws (denial or no response): the catch deletes the task
\* and returns the denied-or-failed result.
PollThrows(i, resp) ==
    /\ inv[i].pc = "poll"
    /\ resp \in TokenResponses(inv[i].oobCode)
    /\ checkForApproval(resp) \in {"THROW_ERRORDATA", "THROW_NETWORK"}
    /\ inv' = [inv EXCEPT ![i] = Return(
                  [@ EXCEPT !.lastPoll = checkForApproval(resp),
                            !.removedStatus = MapGet(pendingTasks, inv[i].taskId).status],
                  DeniedOrFailedResult)]
    /\ pendingTasks' = MapDelete(pendingTasks, inv[i].taskId)
    /\ deniedSeen' = IF checkForApproval(resp) = "THROW_ERRORDATA"
                     THEN deniedSeen \cup {inv[i].oobCode} ELSE deniedSeen
    /\ UNCHANGED <<lister, auditLog, config, now, chk, okta, calls, callLog, approvedSeen>>

\* The approved call returns: the task is deleted and the tool result
\* returned; a thrown error lands in the same catch as a failed poll.
ExecResult(o) == IF o = "throw" THEN DeniedOrFailedResult ELSE ToolResult(o)

ExecReturn(i, o) ==
    /\ inv[i].pc = "exec"
    /\ inv' = [inv EXCEPT ![i] = Return(
                  [@ EXCEPT !.downOutcome = o,
                            !.removedStatus = MapGet(pendingTasks, inv[i].taskId).status],
                  ExecResult(o))]
    /\ pendingTasks' = MapDelete(pendingTasks, inv[i].taskId)
    /\ UNCHANGED <<lister, auditLog, config, now, chk, okta, calls, callLog, approvedSeen, deniedSeen>>

\* The pollInterval timer fires: back to the head of the loop.
PollWake(i) ==
    /\ inv[i].pc = "sleep"
    /\ now >= inv[i].wake
    /\ PollLoop(i, inv[i], pendingTasks)
    /\ UNCHANGED <<lister, auditLog, config, now, chk, okta, calls, callLog, approvedSeen, deniedSeen>>

\* ------------------------------------------- check_task_status (checkStatus)
\* The task ids a caller can ask about: those generated so far and one that
\* was never generated.
UnknownTask == [t |-> 0, r |-> "none"]
KnownTasks == {inv[i].taskId : i \in Invokers} \ {NoTask}

\* The loop of the check_task_status handler after handleTaskStatusCheck
\* returned r: lastresult = result ?? lastresult; a result whose
\* structuredContent.status is set and not "PENDING" is returned, otherwise the
\* handler waits statusInterval.
StatusLoopAfter(k, rec, r) ==
    IF r.status # "" /\ r.status # "PENDING"
    THEN chk' = [chk EXCEPT ![k] = StatusReturn(rec, r)]
    ELSE chk' = [chk EXCEPT ![k] = [rec EXCEPT !.pc = "sleep", !.lastresult = r,
                                       !.task = NoEntry,
                                       !.wake = now + statusInterval]]

\* A lookup that tells a task that was registered once from one that never was.
HandleTaskStatusCheckTellsResolved(k, rec) ==
    LET task == MapGet(pendingTasks, rec.taskId)
    IN IF task = NoEntry \/ task.hitlOobCode = NoCode
       THEN StatusLoopAfter(k, rec, IF rec.taskId \in KnownTasks
                                    THEN Result(FALSE, "task already resolved", "")
                                    ELSE NoActiveTaskResult)
       ELSE chk' = [chk EXCEPT ![k] = [rec EXCEPT !.pc = "poll", !.task = task,
                                          !.wake = NoTime]]

\* handleTaskStatusCheck up to its first await: the lookup.  No task: the
\* "no active task" result.  Otherwise checkForApproval is awaited.
HandleTaskStatusCheck(k, rec) ==
    LET task == MapGet(pendingTasks, rec.taskId)
    IN IF task = NoEntry \/ task.hitlOobCode = NoCode
       THEN StatusLoopAfter(k, rec, NoActiveTaskResult)
       ELSE chk' = [chk EXCEPT ![k] = [rec EXCEPT !.pc = "poll", !.task = task,
                                          !.wake = NoTime]]

\* The head of the loop of the check_task_status handler.
StatusLoop(k, rec) ==
    IF now < rec.startTime + statusDeadline
    THEN HandleTaskStatusCheck(k, rec)
    ELSE chk' = [chk EXCEPT ![k] = StatusReturn(rec, rec.lastresult)]

\* tools/call check_task_status {taskId}
CheckStart(k, id) ==
    /\ chk[k].pc = "idle"
    /\ StatusLoop(k, [chk[k] EXCEPT !.taskId = id, !.startTime = now])
    /\ UNCHANGED <<lister, auditLog, config, now, pendingTasks, inv, okta, calls, callLog,
                   approvedSeen, deniedSeen>>

\* checkForApproval returns "APPROVED": the stored call is sent downstream.
CheckPollApproved(k, resp) ==
    /\ chk[k].pc = "poll"
    /\ resp \in TokenResponses(chk[k].task.hitlOobCode)
    /\ checkForApproval(resp) = "APPROVED"
    /\ chk' = [chk EXCEPT ![k] = [@ EXCEPT !.pc = "exec"]]
    /\ approvedSeen' = approvedSeen \cup {chk[k].task.hitlOobCode}
    /\ DownstreamCall(chk[k].task.toolName, chk[k].task.toolArgs,
                      chk[k].task.hitlOobCode, k)
    /\ UNCHANGED <<lister, auditLog, config, now, pendingTasks, inv, okta, deniedSeen>>

\* A PENDING answer that drops the task from the registry.
CheckPollPendingForgets(k, resp) ==
    /\ chk[k].pc = "poll"
    /\ resp \in TokenResponses(chk[k].task.hitlOobCode)
    /\ checkForApproval(resp) = "PENDING"
    /\ pendingTasks' = MapDelete(pendingTasks, chk[k].taskId)
    /\ StatusLoopAfter(k, chk[k], StillPendingResult)
    /\ UNCHANGED <<lister, auditLog, config, now, inv, okta, calls, callLog,
                   approvedSeen, deniedSeen>>

\* checkForApproval returns "PENDING": the PENDING result.
CheckPollPending(k, resp) ==
    /\ chk[k].pc = "poll"
    /\ resp \in TokenResponses(chk[k].task.hitlOobCode)
    /\ checkForApproval(resp) = "PENDING"
    /\ StatusLoopAfter(k, chk[k], StillPendingResult)
    /\ UNCHANGED <<lister, auditLog, config, now, pendingTasks, inv, okta, calls, callLog,
                   approvedSeen, deniedSeen>>

\* checkForApproval throws: the task is deleted, the failure result returned
\* to the loop of the handler.
CheckPollThrows(k, resp) ==
    /\ chk[k].pc = "poll"
    /\ resp \in TokenResponses(chk[k].task.hitlOobCode)
    /\ checkForApproval(resp) \in {"THROW_ERRORDATA", "THROW_NETWORK"}
    /\ pendingTasks' = MapDelete(pendingTasks, chk[k].taskId)
    /\ deniedSeen' = IF checkForApproval(resp) = "THROW_ERRORDATA"
                     THEN deniedSeen \cup {chk[k].task.hitlOobCode} ELSE deniedSeen
    /\ StatusLoopAfter(k, chk[k], CheckDeniedResult)
    /\ UNCHANGED <<lister, auditLog, config, now, inv, okta, calls, callLog, approvedSeen>>

\* The approved call returns: the task is deleted and the result returned
\* tagged COMPLETED; a thrown error lands in the catch of the failed poll.
CheckExecResult(o) == IF o = "throw" THEN CheckDeniedResult ELSE CompletedResult(o)

CheckExecReturn(k, o) ==
    /\ chk[k].pc = "exec"
    /\ pendingTasks' = MapDelete(pendingTasks, chk[k].taskId)
    /\ StatusLoopAfter(k, chk[k], CheckExecResult(o))
    /\ UNCHANGED <<lister, auditLog, config, now, inv, okta, calls, callLog, approvedSeen, deniedSeen>>

\* The statusInterval timer fires: back to the head of the loop.
CheckWake(k) ==
    /\ chk[k].pc = "sleep"
    /\ now >= chk[k].wake
    /\ StatusLoop(k, chk[k])
    /\ UNCHANGED <<lister, auditLog, config, now, pendingTasks, inv, okta, calls, callLog,
                   approvedSeen, deniedSeen>>

\* The caller, having its answer, sends another check_task_status later.
CheckAgain(k) ==
    /\ chk[k].pc = "done"
    /\ chk' = [chk EXCEPT ![k] = ChkIdle]
    /\ UNCHANGED <<lister, auditLog, config, now, pendingTasks, inv, okta, calls, callLog,
                   approvedSeen, deniedSeen>>

\* tools/call check_task_status without a string taskId: answered at once.
CheckInvalidArgs(k) ==
    /\ chk[k].pc = "idle"
    /\ chk' = [chk EXCEPT ![k] = StatusReturn(chk[k], InvalidTaskIdResult)]
    /\ UNCHANGED <<lister, auditLog, config, now, pendingTasks, inv, okta, calls, callLog,
                   approvedSeen, deniedSeen>>

\* list_high_risk_tools handed on to callTool, which forwards it as any tool
\* the policy does not name.
ListHighRiskToolsForwarded(i) ==
    /\ inv[i].pc = "idle"
    /\ inv' = [inv EXCEPT ![i] = [@ EXCEPT !.pc = "forward",
                  !.toolName = "list_high_risk_tools", !.forwards = @ + 1]]
    /\ DownstreamCall("list_high_risk_tools", "", NoCode, i)
    /\ UNCHANGED <<lister, auditLog, config, now, pendingTasks, chk, okta,
                   approvedSeen, deniedSeen>>

\* tools/call list_high_risk_tools: answered by the handler itself.
ListHighRiskTools(i) ==
    /\ inv[i].pc = "idle"
    /\ inv' = [inv EXCEPT ![i] = Return([@ EXCEPT !.toolName = "list_high_risk_tools"],
                                           HighRiskListResult)]
    /\ UNCHANGED <<lister, auditLog, config, now, pendingTasks, chk, okta, calls, callLog,
                   approvedSeen, deniedSeen>>

\* ----------------------------------------------------------- environment
\* The approver answers the push notification of oob code c.
Decide(c, d) ==
    /\ c \in DOMAIN okta
    /\ okta[c] = "pending"
    /\ okta' = [okta EXCEPT ![c] = d]
    /\ UNCHANGED <<lister, auditLog, config, now, pendingTasks, inv, chk, calls, callLog,
                   approvedSeen, deniedSeen>>

\* Time passes while some request is being handled.
Tick ==
    /\ now < MaxTicks * Quantum
    /\ \/ \E i \in Invokers : inv[i].pc \notin {"off", "idle", "done", "threw"}
       \/ \E k \in Checkers : chk[k].pc \notin {"idle", "done"}
    /\ now' = now + Quantum
    /\ UNCHANGED <<lister, auditLog, config, pendingTasks, inv, chk, okta, calls, callLog,
                   approvedSeen, deniedSeen>>

Next ==
    \/ \E i \in Invokers, n \in ToolNames, tok \in BOOLEAN : \E a \in {ToolArgs[i]} :
          \/ CallToolBlocked(i, n, a, tok)
          \/ CallToolAllowed(i, n, a, tok)
          \/ \E r \in Suffixes : CallToolHighRisk(i, n, a, tok, r)
    \/ \E i \in Invokers, o \in DownOutcomes : ForwardReturn(i, o) \/ ExecReturn(i, o)
    \/ \E i \in Invokers, resp \in OobAuthResponses :
          InitiateFails(i, resp) \/ InitiateSucceeds(i, resp)
    \/ \E i \in Invokers : NotifyReturns(i) \/ NotifyThrows(i) \/ PollWake(i)
    \/ \E i \in Invokers, resp \in TokenReplies :
          PollApproved(i, resp) \/ PollPending(i, resp) \/ PollThrows(i, resp)
    \/ \E k \in Checkers, id \in KnownTasks \cup {UnknownTask} : CheckStart(k, id)
    \/ \E k \in Checkers, resp \in TokenReplies :
          CheckPollApproved(k, resp) \/ CheckPollPending(k, resp) \/ CheckPollThrows(k, resp)
    \/ \E k \in Checkers, o \in DownOutcomes : CheckExecReturn(k, o)
    \/ \E k \in Checkers : CheckWake(k) \/ CheckAgain(k) \/ CheckInvalidArgs(k)
    \/ \E i \in Invokers : ListHighRiskTools(i)
    \/ \E c \in DOMAIN okta, d \in {"approved", "denied"} : Decide(c, d)
    \/ Tick

Spec == Init /\ [][Next]_vars

\* The policy alone: callTool under every policy over the modelled names,
\* without check_task_status requests.
InitPolicy ==
    /\ config \in Policies
    /\ now = 0
    /\ pendingTasks = [id \in {} |-> NoEntry]
    /\ inv = [i \in Invokers |-> IF i = "i1" THEN InvIdle ELSE InvOff]
    /\ chk = [k \in Checkers |-> ChkIdle]
    /\ okta = <<>>
    /\ calls = <<>>
    /\ callLog = {}
    /\ approvedSeen = {}
    /\ deniedSeen = {}
    /\ auditLog = <<>>
    /\ lister = ListerIdle(<<"read_profile", "delete_user", "system_admin">>)

NextPolicy ==
    \/ \E i \in Invokers, n \in ToolNames, tok \in BOOLEAN : \E a \in {ToolArgs[i]} :
          \/ CallToolBlocked(i, n, a, tok)
          \/ CallToolAllowed(i, n, a, tok)
          \/ \E r \in Suffixes : CallToolHighRisk(i, n, a, tok, r)
    \/ \E i \in Invokers, o \in DownOutcomes : ForwardReturn(i, o) \/ ExecReturn(i, o)
    \/ \E i \in Invokers, resp \in OobAuthResponses :
          InitiateFails(i, resp) \/ InitiateSucceeds(i, resp)
    \/ \E i \in Invokers : NotifyReturns(i) \/ NotifyThrows(i) \/ PollWake(i)
    \/ \E i \in Invokers, resp \in TokenReplies :
          PollApproved(i, resp) \/ PollPending(i, resp) \/ PollThrows(i, resp)
    \/ \E c \in DOMAIN okta, d \in {"approved", "denied"} : Decide(c, d)
    \/ Tick

SpecPolicy == InitPolicy /\ [][NextPolicy]_vars

\* Two callers at once: callTool under the source's policy with both callers
\* sending a request, without check_task_status requests.
InitTwo ==
    /\ config = MCPServerMap
    /\ now = 0
    /\ pendingTasks = [id \in {} |-> NoEntry]
    /\ inv = [i \in Invokers |-> InvIdle]
    /\ chk = [k \in Checkers |-> ChkIdle]
    /\ okta = <<>>
    /\ calls = <<>>
    /\ callLog = {}
    /\ approvedSeen = {}
    /\ deniedSeen = {}
    /\ auditLog = <<>>
    /\ lister = ListerIdle(<<"read_profile", "delete_user", "system_admin">>)

SpecTwo == InitTwo /\ [][NextPolicy]_vars

\* tools/list: the handler awaits getTools, which awaits listTools.
ListToolsStart ==
    /\ lister.pc = "idle"
    /\ lister' = [lister EXCEPT !.pc = "listing"]
    /\ UNCHANGED <<auditLog, config, now, pendingTasks, inv, chk, okta, calls,
                   callLog, approvedSeen, deniedSeen>>

\* listTools answers: the handler returns getTools' list and its own two tools.
ListToolsReturn(reply) ==
    /\ lister.pc = "listing"
    /\ lister' = [lister EXCEPT !.pc = "done", !.reply = reply,
                      !.result = ListToolsResult(getTools(reply, lister.downTools))]
    /\ UNCHANGED <<auditLog, config, now, pendingTasks, inv, chk, okta, calls,
                   callLog, approvedSeen, deniedSeen>>

\* The caller sends another tools/list.
ListToolsAgain ==
    /\ lister.pc = "done"
    /\ lister' = ListerIdle(lister.downTools)
    /\ UNCHANGED <<auditLog, config, now, pendingTasks, inv, chk, okta, calls,
                   callLog, approvedSeen, deniedSeen>>

\* The listing alone, over every list of tools the downstream server may hold.
InitList ==
    /\ config = MCPServerMap
    /\ now = 0
    /\ pendingTasks = [id \in {} |-> NoEntry]
    /\ inv = [i \in Invokers |-> IF i = "i1" THEN InvIdle ELSE InvOff]
    /\ chk = [k \in Checkers |-> ChkIdle]
    /\ okta = <<>>
    /\ calls = <<>>
    /\ callLog = {}
    /\ approvedSeen = {}
    /\ deniedSeen = {}
    /\ auditLog = <<>>
    /\ \E tools \in DownListings : lister = ListerIdle(tools)

NextList ==
    \/ ListToolsStart
    \/ \E reply \in ListReplies : ListToolsReturn(reply)
    \/ ListToolsAgain

SpecList == InitList /\ [][NextList]_vars

\* ================================================================ claims
HighRiskCalls == {e \in callLog : Classify(config, e.name) = "HIGH_RISK"}

\* C1: the downstream server has received a call for a high-risk tool only
\* for a task whose own oob code some poll found approved (and the approver
\* did approve), whichever handler sent it.
C1_HighRiskCallOnlyAfterApproval ==
    \A e \in callLog :
        e.name \in config.HighRiskTools =>
            /\ e.code \in DOMAIN okta
            /\ e.code \in approvedSeen
            /\ okta[e.code] = "approved"
            /\ \E i \in Invokers : inv[i].oobCode = e.code /\ inv[i].toolName = e.name

C1_Witness ==
    /\ \E e \in HighRiskCalls : e.by \in Invokers
    /\ \E e \in HighRiskCalls : e.by \in Checkers

\* C2: the downstream server receives at most one call per high-risk task,
\* also when callTool's polling loop and a check_task_status request both see
\* the approval.
C2_AtMostOneExecution ==
    \A c \in DOMAIN calls : calls[c] <= 1

\* C3: a call of a blocked tool returns the blocked error result at once: it
\* is never forwarded, never sends an approval request or a poll and never
\* registers a task.
C3_BlockedNeverForwarded ==
    /\ \A i \in Invokers :
          inv[i].toolName \in config.BlockedTools =>
              /\ inv[i].pc = "done"
              /\ inv[i].result.kind = "result" /\ inv[i].result.isError
              /\ inv[i].forwards = 0
              /\ ~inv[i].initiated /\ ~inv[i].polled /\ inv[i].oobCode = NoCode
              /\ \A e \in callLog : e.by # i
    /\ \A e \in callLog : e.name \notin config.BlockedTools

C3_Witness ==
    \E i \in Invokers :
        inv[i].toolName \in config.BlockedTools /\ inv[i].result = BlockedResult

\* What the caller of a forwarded call is owed: the tool result as it came,
\* or the downstream failure.
IsDownstreamResult(r, o) ==
    IF o = "throw" THEN r.kind = "thrown" \/ (r.kind = "result" /\ r.isError)
    ELSE r = ToolResult(o)

\* C4: a call of a tool that is neither blocked nor high risk is forwarded
\* exactly once and what the downstream server answered, success or failure,
\* is what callTool returns.
C4_AllowedForwardedVerbatim ==
    \A i \in Invokers :
        (inv[i].cls = "ALLOWED" /\ inv[i].pc = "done") =>
            /\ inv[i].forwards = 1
            /\ Cardinality({e \in callLog : e.by = i}) = 1
            /\ IsDownstreamResult(inv[i].result, inv[i].downOutcome)

\* C5: a task the approver denied never reaches the downstream server: no
\* call is ever received for an oob code that is denied or for which a poll
\* threw the provider's denial.
C5_DeniedNeverExecuted ==
    \A c \in DOMAIN okta :
        (okta[c] = "denied" \/ c \in deniedSeen) =>
            /\ calls[c] = 0
            /\ \A e \in callLog : e.code # c

C5_Witness ==
    \E i \in Invokers, k \in Checkers :
        /\ inv[i].oobCode \in deniedSeen
        /\ inv[i].result = DeniedOrFailedResult
        /\ chk[k].pc = "done" /\ chk[k].taskId = inv[i].taskId

\* C6: when callTool gives up at the deadline the task has status TIMED_OUT,
\* it is gone from the registry, and the result is the timeout result and
\* not the denial result.
C6_TimedOutAtDeadline ==
    \A i \in Invokers :
        inv[i].result = TimeoutResult =>
            /\ inv[i].removedStatus = "TIMED_OUT"
            /\ inv[i].taskId \notin DOMAIN pendingTasks
            /\ inv[i].result # DeniedOrFailedResult

\* C7: once callTool has returned the timeout result, or the denial result
\* after a poll threw the provider's denial, the downstream server receives
\* no call for that task any more, whatever request is still in flight.
C7_NoExecutionAfterGivingUp ==
    [][\A i \in Invokers :
          (/\ inv[i].pc = "done"
           /\ inv[i].oobCode # NoCode
           /\ \/ inv[i].result = TimeoutResult
              \/ /\ inv[i].result = DeniedOrFailedResult
                 /\ inv[i].lastPoll = "THROW_ERRORDATA")
          => calls'[inv[i].oobCode] = calls[inv[i].oobCode]]_vars

\* C8: every call is classified as exactly one of BLOCKED, HIGH_RISK and
\* ALLOWED: BLOCKED if the name is blocked (high risk or not), HIGH_RISK if
\* it is high risk and not blocked, ALLOWED if it is neither.
C8_ClassificationTotalBlockedFirst ==
    /\ \A n \in ToolNames : Classify(config, n) \in {"BLOCKED", "HIGH_RISK", "ALLOWED"}
    /\ \A i \in Invokers :
          inv[i].cls # "" =>
              /\ inv[i].cls = "BLOCKED" <=> inv[i].toolName \in config.BlockedTools
              /\ inv[i].cls = "HIGH_RISK" <=>
                     inv[i].toolName \in config.HighRiskTools \ config.BlockedTools
              /\ inv[i].cls = "ALLOWED" <=>
                     inv[i].toolName \notin config.HighRiskTools \cup config.BlockedTools
              /\ inv[i].cls = "BLOCKED" => inv[i].result = BlockedResult
              /\ inv[i].cls = "HIGH_RISK" => inv[i].initiated /\ inv[i].forwards = 0
              /\ inv[i].cls = "ALLOWED" => ~inv[i].initiated /\ inv[i].forwards = 1

C8_Witness ==
    \E i \in Invokers :
        /\ inv[i].toolName \in config.BlockedTools \cap config.HighRiskTools
        /\ inv[i].cls = "BLOCKED"

\* C9: a poll that got no response leaves the task registered and the call
\* running: it is not answered with the denial result.
C9_TransportFailureRetried ==
    \A i \in Invokers :
        inv[i].lastPoll = "THROW_NETWORK" =>
            /\ inv[i].taskId \in DOMAIN pendingTasks
            /\ inv[i].pc # "done"
            /\ inv[i].result # DeniedOrFailedResult

\* C10: a call whose approval request failed returns the setup-failed error
\* result, has no oob code, never polled, never reached the downstream
\* server, and left no task behind: every registered task carries the oob
\* code of a call whose approval request succeeded.
C10_InitiationFailureRegistersNothing ==
    \A i \in Invokers :
        inv[i].result = SetupFailedResult =>
            /\ inv[i].pc = "done" /\ inv[i].result.isError
            /\ inv[i].oobCode = NoCode /\ ~inv[i].polled
            /\ \A e \in callLog : e.by # i
            /\ \A id \in DOMAIN pendingTasks :
                  /\ pendingTasks[id].hitlOobCode \in DOMAIN okta
                  /\ \E j \in Invokers \ {i} :
                        inv[j].oobCode = pendingTasks[id].hitlOobCode

C10_Witness ==
    \E i \in Invokers :
        /\ inv[i].result = SetupFailedResult
        /\ inv[i].initiated
\* C11: when the downstream call of an approved task throws, the handler that
\* sent it answers with a result of its own for the failed execution, never
\* with the result it gives for a denied or failed approval: callTool does so
\* when it returns, handleTaskStatusCheck when its result goes back to the loop
\* of the check_task_status handler.
C11_DownstreamFailureDistinct ==
    [][/\ \A i \in Invokers :
             (inv[i].pc = "exec" /\ inv'[i].pc = "done"
                 /\ inv'[i].downOutcome = "throw")
             => /\ inv'[i].result # DeniedOrFailedResult
                /\ inv'[i].removedStatus = "FAILED"
       /\ \A k \in Checkers :
             (chk[k].pc = "exec" /\ chk'[k].pc # "exec")
             => chk'[k].lastresult # CheckDeniedResult]_vars

\* C12: once handleTaskStatusCheck has found the approval of a task denied by
\* the provider and answered the check_task_status handler with the
\* denied-or-failed result, that result stays the handler's answer: its next
\* step keeps it as lastresult or returns it to the caller.
C12_DenialIsWhatTheCallReturns ==
    [][\A k \in Checkers :
          (chk[k].pc = "sleep" /\ chk[k].lastresult = CheckDeniedResult
              /\ \E i \in Invokers : /\ inv[i].taskId = chk[k].taskId
                                     /\ inv[i].oobCode \in deniedSeen
              /\ chk'[k] # chk[k])
          => \/ chk'[k].lastresult = CheckDeniedResult
             \/ chk'[k].result = CheckDeniedResult]_vars

\* C13: when the downstream call sent by handleTaskStatusCheck for an approved
\* task comes back, the task is removed and the check_task_status request
\* returns at once a result tagged COMPLETED.
C13_ApprovedCheckCompletes ==
    [][\A k \in Checkers :
          (chk[k].pc = "exec" /\ chk'[k].pc # "exec")
          => /\ chk[k].taskId \notin DOMAIN pendingTasks'
             /\ chk'[k].pc = "done"
             /\ chk'[k].result.status = "COMPLETED"
             /\ chk'[k].result.kind = "result"]_vars

\* C14: a handleTaskStatusCheck whose poll returns "PENDING" answers with the
\* PENDING result and changes nothing else: the registry is the same (the task
\* with its name, arguments and oob code, and every other task), no downstream
\* call is sent, the provider and the other handlers are untouched.  When the
\* check_task_status request then runs out of time, the PENDING result is what
\* it returns.
C14_PendingCheckChangesNothing ==
    [][\A k \in Checkers :
          /\ (chk[k].pc = "poll" /\ chk'[k].pc = "sleep"
                 /\ chk'[k].lastresult # CheckDeniedResult)
             => /\ chk'[k].lastresult = StillPendingResult
                /\ chk[k].taskId \in DOMAIN pendingTasks
                   => chk[k].task = pendingTasks[chk[k].taskId]
                /\ UNCHANGED <<pendingTasks, calls, callLog, okta, inv, auditLog>>
          /\ (chk[k].pc = "sleep" /\ chk[k].lastresult = StillPendingResult
                 /\ chk'[k].pc = "done")
             => chk'[k].result = StillPendingResult]_vars

C14_Witness ==
    \E k \in Checkers :
        /\ chk[k].pc = "done"
        /\ chk[k].result = StillPendingResult
        /\ chk[k].taskId \in DOMAIN pendingTasks
        /\ pendingTasks[chk[k].taskId].status = "PENDING"
        /\ calls[pendingTasks[chk[k].taskId].hitlOobCode] = 0

\* C15: a lookup of handleTaskStatusCheck that finds no task answers alike
\* whatever the task id is, one that was never generated or one whose task has
\* been resolved and deleted: the "no active task" result, the same wait, and
\* no change to the registry, the downstream server, the provider or the other
\* handlers.  A check_task_status request that has had this answer and runs out
\* of time returns it.
C15_AbsentTaskSameAnswer ==
    [][\A k \in Checkers :
          /\ (chk[k].pc \in {"idle", "sleep"} /\ chk'[k].pc = "sleep"
                 /\ chk'[k] # chk[k])
             => /\ chk'[k].taskId \notin DOMAIN pendingTasks
                /\ chk'[k].lastresult = NoActiveTaskResult
                /\ chk'[k].wake = now + statusInterval
                /\ UNCHANGED <<pendingTasks, calls, callLog, okta, inv, auditLog>>
          /\ (chk[k].pc = "sleep" /\ chk[k].lastresult = NoActiveTaskResult
                 /\ chk'[k].pc = "done")
             => chk'[k].result = NoActiveTaskResult]_vars

\* A check of a task that callTool had resolved and deleted before has returned
\* the "no active task" result.
C15_Witness ==
    \E k \in Checkers, i \in Invokers :
        /\ chk[k].pc = "done"
        /\ chk[k].result = NoActiveTaskResult
        /\ chk[k].taskId = inv[i].taskId
        /\ inv[i].pc = "done"
        /\ inv[i].registered
        /\ inv[i].taskId \notin DOMAIN pendingTasks

\* C16: every request the handlers have finished was answered with a result:
\* callTool and the check_task_status handler never end by throwing and never
\* return null.
C16_AlwaysAStructuredResult ==
    /\ \A i \in Invokers :
          /\ inv[i].pc # "threw"
          /\ inv[i].pc = "done" => inv[i].result.kind = "result"
    /\ \A k \in Checkers :
          chk[k].pc = "done" => chk[k].result.kind = "result"

\* C17: the audit log holds exactly one record for every call callTool has
\* taken up, blocked, forwarded or held for approval alike, naming its tool and
\* arguments.
C17_OneAuditRecordPerInvocation ==
    LET attempts == {i \in Invokers : inv[i].cls # ""}
    IN /\ Len(auditLog) = Cardinality(attempts)
       /\ \A i \in attempts :
             \E j \in 1..Len(auditLog) :
                 /\ auditLog[j].tool = inv[i].toolName
                 /\ auditLog[j].arguments = inv[i].toolArgs

\* C18: a step deletes a task from the registry only when the task's outcome
\* is final: the provider has denied it, or callTool's pollTimeout for it has
\* run out, or its approved call has been sent downstream.  No step deletes a
\* task that is still pending at the provider within the deadline, or one that
\* is approved and not yet executed.
C18_RemovedOnlyWhenResolved ==
    [][\A id \in DOMAIN pendingTasks :
          id \notin DOMAIN pendingTasks' =>
             LET c       == pendingTasks[id].hitlOobCode
                 expired == \E i \in Invokers :
                               /\ inv[i].taskId = id
                               /\ inv[i].startTime # NoTime
                               /\ now - inv[i].startTime >= pollTimeout
             IN \/ okta[c] = "denied"
                \/ expired
                \/ okta[c] = "approved" /\ calls[c] >= 1]_vars

\* C19: the stored status of a task only moves along PENDING -> APPROVED ->
\* EXECUTED or FAILED, PENDING -> DENIED, PENDING -> TIMED_OUT: a task enters
\* the registry as PENDING, and no step puts a registered task back to PENDING
\* or moves it out of a final status.  (No handler writes the status after
\* registration, so a task keeps PENDING until it is deleted.)
C19_StatusOnlyForward ==
    [][LET forward == {<<"PENDING", "APPROVED">>, <<"APPROVED", "EXECUTED">>,
                       <<"APPROVED", "FAILED">>, <<"PENDING", "DENIED">>,
                       <<"PENDING", "TIMED_OUT">>}
       IN \A id \in DOMAIN pendingTasks' :
             IF id \in DOMAIN pendingTasks
             THEN \/ pendingTasks'[id].status = pendingTasks[id].status
                  \/ <<pendingTasks[id].status, pendingTasks'[id].status>> \in forward
             ELSE pendingTasks'[id].status = "PENDING"]_vars

\* A registered task whose approved call has been sent downstream.
C19_Witness ==
    \E id \in DOMAIN pendingTasks :
        /\ pendingTasks[id].status = "PENDING"
        /\ okta[pendingTasks[id].hitlOobCode] = "approved"
        /\ calls[pendingTasks[id].hitlOobCode] >= 1

\* C20: registering a task never replaces or alters a task that is in the
\* registry: a step that keeps an id registered keeps its task (name,
\* arguments, status and oob code) as it was.
C20_RegistrationNeverOverwrites ==
    [][\A id \in DOMAIN pendingTasks :
          id \in DOMAIN pendingTasks' => pendingTasks'[id] = pendingTasks[id]]_vars

\* C21: the registry holds, for every call of callTool whose task is
\* registered and not yet deleted by it, the tool name, the arguments and the
\* oob code of that call, unchanged; and every downstream call sent for a task
\* carries the name and arguments of the call of callTool that created the
\* task, whether callTool's loop or handleTaskStatusCheck sent it.
C21_StoredPayloadReplayedVerbatim ==
    /\ \A i \in Invokers :
          (inv[i].registered /\ inv[i].pc \in {"notify", "poll", "sleep"}
              /\ inv[i].taskId \in DOMAIN pendingTasks)
          => /\ pendingTasks[inv[i].taskId].toolName = inv[i].toolName
             /\ pendingTasks[inv[i].taskId].toolArgs = inv[i].toolArgs
             /\ pendingTasks[inv[i].taskId].hitlOobCode = inv[i].oobCode
    /\ \A e \in callLog :
          e.code # NoCode
          => \E i \in Invokers : /\ inv[i].oobCode = e.code
                                 /\ inv[i].toolName = e.name
                                 /\ inv[i].toolArgs = e.args

\* C22: a finished tools/list holds the downstream server's tools in their
\* order (none when listTools threw) followed by check_task_status and
\* list_high_risk_tools, these two in every listing.
C22_ListingAppendsSyntheticTools ==
    lister.pc = "done" =>
        LET r == lister.result
            n == Len(r)
        IN /\ n >= 2
           /\ r[n - 1] = "check_task_status"
           /\ r[n] = "list_high_risk_tools"
           /\ SubSeq(r, 1, n - 2) = IF lister.reply = "throw" THEN <<>>
                                    ELSE lister.downTools

\* An answered listing of a downstream server with MaxList tools.
C22_Witness ==
    /\ lister.pc = "done"
    /\ lister.reply = "tools"
    /\ Len(lister.downTools) = MaxList
    /\ lister.downTools[1] # lister.downTools[2]
    /\ Len(lister.result) = MaxList + 2

\* C23: check_task_status and list_high_risk_tools are answered by the
\* CallTool handler itself.  No downstream call ever carries either name; a
\* list_high_risk_tools request returns its text at once and touches neither
\* the registry, the provider nor the downstream server; no step of a
\* check_task_status request sends an approval request or adds a task.
C23_SyntheticToolsStayInside ==
    [][LET synthetic == {"check_task_status", "list_high_risk_tools"}
       IN /\ \A e \in callLog' : e.name \notin synthetic
          /\ \A i \in Invokers :
                (inv'[i].toolName = "list_high_risk_tools" /\ inv'[i] # inv[i])
                => /\ inv'[i].pc = "done"
                   /\ inv'[i].result = HighRiskListResult
                   /\ ~inv'[i].initiated /\ ~inv'[i].registered
                   /\ UNCHANGED <<pendingTasks, okta, calls, callLog>>
          /\ chk' # chk
             => /\ inv' = inv
                /\ Len(okta') = Len(okta)
                /\ DOMAIN pendingTasks' \subseteq DOMAIN pendingTasks]_vars

\* Both requests have been answered: the list of high-risk tools, and a status
\* query.
C23_Witness ==
    \E i \in Invokers, k \in Checkers :
        /\ inv[i].toolName = "list_high_risk_tools"
        /\ inv[i].pc = "done"
        /\ inv[i].result = HighRiskListResult
        /\ chk[k].pc = "done"
        /\ chk[k].result = NoActiveTaskResult

\* C24: no task is left in the registry once every request has ended.  When
\* no handler is running, nothing but a later check_task_status request can
\* delete a task, so a task registered in such a state may stay for ever.
C24_NoTaskLeftBehind ==
    (/\ \A i \in Invokers : inv[i].pc \in {"off", "idle", "done", "threw"}
     /\ \A k \in Checkers : chk[k].pc \in {"idle", "done"})
    => DOMAIN pendingTasks = {}

\* C25: a callTool for a high-risk tool ends with a result.  Its loop starts a
\* poll only while less than pollTimeout has passed since startTime, it never
\* ends by throwing, and what it returns is the setup failure, the approved
\* call's result, the denied-or-failed result or the timeout result.
C25_HighRiskCallEndsWithResult ==
    [][\A i \in Invokers :
          inv'[i].cls = "HIGH_RISK" =>
             /\ (inv[i].pc # "poll" /\ inv'[i].pc = "poll")
                => /\ inv'[i].startTime # NoTime
                   /\ now - inv'[i].startTime < pollTimeout
             /\ inv'[i].pc # "threw"
             /\ (inv[i].pc # "done" /\ inv'[i].pc = "done")
                => inv'[i].result \in
                      {ToolResult(o) : o \in DownOutcomes} \cup
                      {SetupFailedResult, DeniedOrFailedResult, TimeoutResult}]_vars

\* C26: a step of callTool for one call leaves the task of every other call
\* alone: while the other call's task is registered and that call is still
\* being handled, its registry entry stays and is unchanged, and so are the
\* provider's decision on its oob code and the number of downstream calls sent
\* for it.
C26_TasksAreIndependent ==
    [][\A i \in Invokers, j \in Invokers :
          (i # j /\ inv'[i] # inv[i] /\ inv[j].registered
              /\ inv[j].pc \in {"notify", "poll", "sleep", "exec"}
              /\ inv[j].taskId \in DOMAIN pendingTasks)
          => /\ inv[j].taskId \in DOMAIN pendingTasks'
             /\ pendingTasks'[inv[j].taskId] = pendingTasks[inv[j].taskId]
             /\ okta'[inv[j].oobCode] = okta[inv[j].oobCode]
             /\ calls'[inv[j].oobCode] = calls[inv[j].oobCode]]_vars

====
